---- MODULE Spec2Model ----
(***************************************************************************)
(* A model of wdio-errorshot-reporter: the ErrorshotReporter class         *)
(* (constructor, 'runner:screenshot' handler, asynchronous rename) and the *)
(* pure helpers it is built from (slugify, browser inference, template     *)
(* placeholder substitution).                                              *)
(*                                                                         *)
(* JavaScript strings are sequences of one-character strings, so that the  *)
(* regular expressions of the source are modelled by what they match.      *)
(* JavaScript values are tagged records: [t |-> "undefined"],              *)
(* [t |-> "null"], [t |-> "boolean", v |-> b], [t |-> "string", v |-> s],  *)
(* [t |-> "date", v |-> fields]; an object is a function from the names of *)
(* its own properties to values.                                           *)
(***************************************************************************)
EXTENDS Integers, Sequences, FiniteSets, TLC

VARIABLES
    pc,               \* "new" before the constructor ran, then "constructed" or "threw"
    config,           \* this.config, the object coming from wdio.conf.js
    filenameTemplate, \* this.filenameTemplate
    isInitialized,    \* this._isInitialized
    events,           \* one entry per 'runner:screenshot' event delivered to the handler
    renames,          \* one entry per fs.rename request, with its completion state
    log,              \* the calls made to this.log, in order
    files,            \* the paths at which the file system holds a file
    call              \* the last direct call of a public method and what it returned

vars == <<pc, config, filenameTemplate, isInitialized, events, renames, log, files, call>>

-----------------------------------------------------------------------------
(* Bounds of the model. *)

\* number of 'runner:screenshot' events delivered to one reporter
MaxEvents == 2
\* length of the generated part of a generated file name
MaxBodyLen == 4
\* number of pieces a generated template is made of
MaxPieces == 3

-----------------------------------------------------------------------------
(* Characters and strings. *)

lowerSeq == <<"a", "b", "c", "d", "e", "f", "g", "h", "i", "j", "k", "l", "m", "n", "o", "p", "q", "r", "s", "t", "u", "v", "w", "x", "y", "z">>
upperSeq == <<"A", "B", "C", "D", "E", "F", "G", "H", "I", "J", "K", "L", "M", "N", "O", "P", "Q", "R", "S", "T", "U", "V", "W", "X", "Y", "Z">>
digitSeq == <<"0", "1", "2", "3", "4", "5", "6", "7", "8", "9">>

Range(s) == {s[i] : i \in DOMAIN s}

\* \w of a JavaScript regular expression: [A-Za-z0-9_]
WordChar == Range(lowerSeq) \cup Range(upperSeq) \cup Range(digitSeq) \cup {"_"}
\* \s, restricted to the white space the model's strings use
SpaceChar == {" ", "\t", "\n"}
\* the characters '.' does not match
LineTerminator == {"\n"}

\* String.prototype.toLowerCase, one character
toLowerCaseChar(c) ==
    IF c \in Range(upperSeq)
    THEN lowerSeq[CHOOSE i \in DOMAIN upperSeq : upperSeq[i] = c]
    ELSE c

toLowerCase(s) == [i \in DOMAIN s |-> toLowerCaseChar(s[i])]

\* String.prototype.startsWith
startsWith(s, p) == Len(p) <= Len(s) /\ SubSeq(s, 1, Len(p)) = p

\* String.prototype.includes
includes(s, p) ==
    \E i \in 1..(Len(s) - Len(p) + 1) : SubSeq(s, i, i + Len(p) - 1) = p

Min(S) == CHOOSE x \in S : \A y \in S : x <= y
Max(S) == CHOOSE x \in S : \A y \in S : x >= y

\* last index of the maximal run of characters of class C that starts at i
\* (i - 1 when s[i] is not in C)
RunEnd(s, i, C) == Min({k \in i..(Len(s) + 1) : k = Len(s) + 1 \/ s[k] \notin C}) - 1

\* the positions from i on where a regular expression C{min,} matches: the
\* starts of the maximal runs of at least min characters of class C
RunStarts(s, i, C, min) ==
    {j \in i..Len(s) : /\ s[j] \in C
                       /\ (j = i \/ s[j - 1] \notin C)
                       /\ RunEnd(s, j, C) - j + 1 >= min}

\* s.replace(/C{min,}/g, repl): every maximal run of at least min characters
\* of class C, scanned left to right from i, is replaced by repl
RECURSIVE ReplaceRuns(_, _, _, _, _)
ReplaceRuns(s, i, C, min, repl) ==
    IF RunStarts(s, i, C, min) = {} THEN SubSeq(s, i, Len(s))
    ELSE LET j == Min(RunStarts(s, i, C, min))
         IN  SubSeq(s, i, j - 1) \o repl
                 \o ReplaceRuns(s, RunEnd(s, j, C) + 1, C, min, repl)

\* s.replace(/^C+/, '')
TrimStart(s, C) == SubSeq(s, RunEnd(s, 1, C) + 1, Len(s))

\* first index of the maximal run of characters of class C that ends at i
\* (i + 1 when s[i] is not in C)
RunStart(s, i, C) == Max({k \in 0..i : k = 0 \/ s[k] \notin C}) + 1

\* s.replace(/C+$/, '')
TrimEnd(s, C) == SubSeq(s, 1, RunStart(s, Len(s), C) - 1)

-----------------------------------------------------------------------------
(* JavaScript values. *)

Undefined == [t |-> "undefined"]
Null == [t |-> "null"]
False == [t |-> "boolean", v |-> FALSE]
Str(s) == [t |-> "string", v |-> s]
\* a Date by its UTC calendar fields; valid = FALSE is the Invalid Date
DateOf(valid, y, mo, d, h, mi, sec, ms) ==
    [t |-> "date", v |-> [valid |-> valid, y |-> y, mo |-> mo, d |-> d,
                          h |-> h, mi |-> mi, sec |-> sec, ms |-> ms]]

\* ToBoolean of the values the model uses
Truthy(x) ==
    CASE x.t = "undefined" -> FALSE
      [] x.t = "null"      -> FALSE
      [] x.t = "boolean"   -> x.v
      [] x.t = "string"    -> x.v # <<>>
      [] OTHER             -> TRUE

\* an object with the own properties f
Obj(f) == [t |-> "object", v |-> f]
\* the object without an own property
EmptyObject == Obj(<<>>)

\* Object.prototype.hasOwnProperty
hasOwnProperty(obj, key) == key \in DOMAIN obj.v

\* obj.key: undefined when the object has no such property
Get(obj, key) == IF key \in DOMAIN obj.v THEN obj.v[key] ELSE Undefined

True == [t |-> "boolean", v |-> TRUE]
\* the outcome of a call that throws a TypeError instead of returning
Thrown == [t |-> "throw", v |-> "TypeError"]

\* n in decimal, zero-padded to width digits
RECURSIVE Pad(_, _)
Pad(n, width) ==
    IF width = 0 THEN <<>> ELSE Pad(n \div 10, width - 1) \o <<digitSeq[(n % 10) + 1]>>

\* Date.prototype.toJSON: the ISO string of a valid date, null of the Invalid Date
toJSON(date) ==
    IF ~date.v.valid THEN Null
    ELSE LET f == date.v
             year == IF f.y >= 0 /\ f.y <= 9999 THEN Pad(f.y, 4)
                     ELSE (IF f.y < 0 THEN <<"-">> ELSE <<"+">>)
                          \o Pad(IF f.y < 0 THEN 0 - f.y ELSE f.y, 6)
         IN  Str(year \o <<"-">> \o Pad(f.mo, 2) \o <<"-">> \o Pad(f.d, 2) \o <<"T">>
                 \o Pad(f.h, 2) \o <<":">> \o Pad(f.mi, 2) \o <<":">> \o Pad(f.sec, 2)
                 \o <<".">> \o Pad(f.ms, 3) \o <<"Z">>)

-----------------------------------------------------------------------------
(* lib/helpers/slugify.js *)

\* text.toString() throws a TypeError on undefined and null
slugifyThrows(text) == text.t \in {"undefined", "null"}

slugify(text, delimiter) ==
    LET lowered   == toLowerCase(text.v)
        spaced    == ReplaceRuns(lowered, 1, SpaceChar, 1, delimiter)
        cleaned   == SelectSeq(spaced, LAMBDA c : c \in WordChar \cup {"-"})
        collapsed == ReplaceRuns(cleaned, 1, {"-"}, 2, delimiter)
    IN  TrimEnd(TrimStart(collapsed, {"-"}), {"-"})

defaultDelimiter == <<"-">>

-----------------------------------------------------------------------------
(* Browser inference. *)

\* the list of getBrowserFromScreenshotName, in its order
browsers == << <<"c", "h", "r", "o", "m", "e">>, <<"f", "i", "r", "e", "f", "o", "x">>, <<"i", "e">>, <<"e", "d", "g", "e">>, <<"o", "p", "e", "r", "a">> >>

unknownBrowser == <<"u", "n", "k", "n", "o", "w", "n", "_", "b", "r", "o", "w", "s", "e", "r">>

\* index of the first "_" from position j on when only characters '.' matches
\* lie before it, 0 when there is none
NextUnderscore(s, j) ==
    LET stops == {k \in j..Len(s) : s[k] = "_" \/ s[k] \in LineTerminator}
    IN  IF stops # {} /\ s[Min(stops)] = "_" THEN Min(stops) ELSE 0

\* filename.match(/_(.*?)_/): the leftmost "_" that a later "_" follows on the
\* same line, and the shortest text between the two; null when there is none.
\* The result is the match array <<whole match, capture>>.
matchUnderscores(filename) ==
    LET starts == {i \in DOMAIN filename :
                      filename[i] = "_" /\ NextUnderscore(filename, i + 1) # 0}
    IN  IF starts = {} THEN Null
        ELSE LET i == Min(starts)
                 j == NextUnderscore(filename, i + 1)
             IN  [t |-> "array",
                  v |-> <<SubSeq(filename, i, j), SubSeq(filename, i + 1, j - 1)>>]

\* a search that stops at the first entry of the list the file name includes
lastIncluded_first(filename, n) ==
    IF \E m \in 1..n : includes(filename, browsers[m])
    THEN Str(browsers[Min({m \in 1..n : includes(filename, browsers[m])})])
    ELSE Null

\* browsers.forEach(...): the last entry of the list, up to index n, that the
\* file name includes; null when none does
RECURSIVE lastIncluded(_, _)
lastIncluded(filename, n) ==
    IF n = 0 THEN Null
    ELSE IF includes(filename, browsers[n]) THEN Str(browsers[n])
    ELSE lastIncluded(filename, n - 1)

\* an inference that trusts only the list of known browsers
getBrowserFromScreenshotName_listOnly(filename) ==
    LET browserName == lastIncluded(filename, Len(browsers))
    IN  IF Truthy(browserName) THEN browserName.v ELSE unknownBrowser

getBrowserFromScreenshotName(filename) ==
    LET parsedFilenameParts == matchUnderscores(filename)
        parsed == IF parsedFilenameParts.t = "array" /\ Len(parsedFilenameParts.v) # 0
                  THEN Str(parsedFilenameParts.v[2])
                  ELSE False
        browserName == IF ~Truthy(parsed) \/ ~startsWith(filename, <<"E", "R", "R", "O", "R">>)
                       THEN lastIncluded(filename, Len(browsers))
                       ELSE parsed
    IN  IF Truthy(browserName) THEN browserName.v ELSE unknownBrowser

-----------------------------------------------------------------------------
(* Placeholders. *)

k_capId == <<"c", "a", "p", "I", "d">>
k_browser == <<"b", "r", "o", "w", "s", "e", "r">>
k_browserName == <<"b", "r", "o", "w", "s", "e", "r", "N", "a", "m", "e">>
k_timestamp == <<"t", "i", "m", "e", "s", "t", "a", "m", "p">>
k_parent == <<"p", "a", "r", "e", "n", "t">>
k_title == <<"t", "i", "t", "l", "e">>

PlaceholderKeys == {k_capId, k_browser, k_browserName, k_timestamp, k_parent, k_title}

\* s.replace(/:/g, '-')
replaceColons(s) == [i \in DOMAIN s |-> IF s[i] = ":" THEN "-" ELSE s[i]]

\* whether getPlaceholderLookup throws a TypeError: filename.match is not a
\* function of a non-string, time.toJSON is no method of a non-date, the
\* toJSON of the Invalid Date is null, which has no replace, and slugify
\* throws on undefined and null
getPlaceholderLookupThrows(screenshot) ==
    \/ Get(screenshot, "filename").t # "string"
    \/ Get(screenshot, "time").t # "date"
    \/ toJSON(Get(screenshot, "time")).t # "string"
    \/ slugifyThrows(Get(screenshot, "parent"))
    \/ slugifyThrows(Get(screenshot, "title"))

getPlaceholderLookup(screenshot) ==
    LET browserName == getBrowserFromScreenshotName(Get(screenshot, "filename").v)
    IN  [k \in PlaceholderKeys |->
            CASE k = k_capId       -> browserName
              [] k = k_browser     -> browserName
              [] k = k_browserName -> browserName
              [] k = k_timestamp   -> replaceColons(toJSON(Get(screenshot, "time")).v)
              [] k = k_parent      -> slugify(Get(screenshot, "parent"), defaultDelimiter)
              [] k = k_title       -> slugify(Get(screenshot, "title"), defaultDelimiter)]

\* match.replace(/%/g, '')
stripPercent(match) == SelectSeq(match, LAMBDA c : c # "%")

\* template.replace(/%\w+%/g, match => ...) from position i on: one pass from
\* left to right; what a replacement inserts is not scanned again
\* whether /%\w+%/ matches at position i: a "%", the maximal run of one or
\* more word characters, and a "%" right after it
MatchesAt(template, i) ==
    LET e == RunEnd(template, i + 1, WordChar)
    IN  template[i] = "%" /\ e > i /\ e + 1 <= Len(template) /\ template[e + 1] = "%"

\* a substitution that drops the tokens it has no value for
RECURSIVE ReplaceFrom_dropUnknown(_, _, _)
ReplaceFrom_dropUnknown(template, i, placeholders) ==
    LET starts == {j \in i..Len(template) : MatchesAt(template, j)}
    IN  IF starts = {} THEN SubSeq(template, i, Len(template))
        ELSE LET j == Min(starts)
                 e == RunEnd(template, j + 1, WordChar)
                 matchNoDelimiter == stripPercent(SubSeq(template, j, e + 1))
             IN  SubSeq(template, i, j - 1)
                 \o (IF matchNoDelimiter \in DOMAIN placeholders
                     THEN placeholders[matchNoDelimiter]
                     ELSE <<>>)
                 \o ReplaceFrom_dropUnknown(template, e + 2, placeholders)

\* a substitution that scans the values it inserts as well
RECURSIVE ReplaceFrom_rescan(_, _, _)
ReplaceFrom_rescan(template, i, placeholders) ==
    LET starts == {j \in i..Len(template) : MatchesAt(template, j)}
    IN  IF starts = {} THEN SubSeq(template, i, Len(template))
        ELSE LET j == Min(starts)
                 e == RunEnd(template, j + 1, WordChar)
                 match == SubSeq(template, j, e + 1)
                 matchNoDelimiter == stripPercent(match)
                 rest == SubSeq(template, e + 2, Len(template))
             IN  SubSeq(template, i, j - 1)
                 \o (IF matchNoDelimiter \in DOMAIN placeholders
                     THEN ReplaceFrom_rescan(placeholders[matchNoDelimiter] \o rest, 1,
                                             placeholders)
                     ELSE match \o ReplaceFrom_rescan(rest, 1, placeholders))

RECURSIVE ReplaceFrom(_, _, _)
ReplaceFrom(template, i, placeholders) ==
    LET starts == {j \in i..Len(template) : MatchesAt(template, j)}
    IN  IF starts = {} THEN SubSeq(template, i, Len(template))
        ELSE LET j == Min(starts)
                 e == RunEnd(template, j + 1, WordChar)
                 match == SubSeq(template, j, e + 1)
                 matchNoDelimiter == stripPercent(match)
             IN  SubSeq(template, i, j - 1)
                 \o (IF matchNoDelimiter \in DOMAIN placeholders
                     THEN placeholders[matchNoDelimiter]
                     ELSE match)
                 \o ReplaceFrom(template, e + 2, placeholders)

replaceFilenameTemplatePlaceholders(template, screenshot) ==
    ReplaceFrom(template, 1, getPlaceholderLookup(screenshot))

\* a name without the file extension
getScreenshotName_noext(template, screenshot) ==
    replaceFilenameTemplatePlaceholders(template, screenshot)

getScreenshotName(template, screenshot) ==
    replaceFilenameTemplatePlaceholders(template, screenshot) \o <<".", "p", "n", "g">>

-----------------------------------------------------------------------------
(* Paths: path.join of Node.js, POSIX flavour. *)

\* the segments of a path between its "/" separators
Split(p) ==
    LET seps == {i \in DOMAIN p : p[i] = "/"}
        \* the position of the k-th separator; 0 and Len(p) + 1 bracket the path
        sep(k) == IF k = 0 THEN 0
                  ELSE IF k > Cardinality(seps) THEN Len(p) + 1
                  ELSE CHOOSE i \in seps : Cardinality({j \in seps : j < i}) = k - 1
    IN  [k \in 1..(Cardinality(seps) + 1) |-> SubSeq(p, sep(k - 1) + 1, sep(k) - 1)]

\* normalizeString: drops empty and "." segments and resolves ".." against
\* the segment before it
RECURSIVE NormalizeSegments(_, _, _, _)
NormalizeSegments(segs, i, acc, allowAboveRoot) ==
    IF i > Len(segs) THEN acc
    ELSE LET seg == segs[i]
         IN  IF seg = <<>> \/ seg = <<".">>
             THEN NormalizeSegments(segs, i + 1, acc, allowAboveRoot)
             ELSE IF seg = <<".", ".">>
             THEN IF acc # <<>> /\ acc[Len(acc)] # <<".", ".">>
                  THEN NormalizeSegments(segs, i + 1, SubSeq(acc, 1, Len(acc) - 1),
                                         allowAboveRoot)
                  ELSE IF allowAboveRoot
                  THEN NormalizeSegments(segs, i + 1, Append(acc, seg), allowAboveRoot)
                  ELSE NormalizeSegments(segs, i + 1, acc, allowAboveRoot)
             ELSE NormalizeSegments(segs, i + 1, Append(acc, seg), allowAboveRoot)

RECURSIVE JoinSegments(_, _)
JoinSegments(segs, i) ==
    IF i > Len(segs) THEN <<>>
    ELSE IF i = Len(segs) THEN segs[i]
    ELSE segs[i] \o <<"/">> \o JoinSegments(segs, i + 1)

pathNormalize(p) ==
    IF p = <<>> THEN <<".">>
    ELSE LET isAbsolute == p[1] = "/"
             trailing == p[Len(p)] = "/"
             body == JoinSegments(
                         NormalizeSegments(Split(p), 1, <<>>, ~isAbsolute), 1)
             withDot == IF body = <<>> /\ ~isAbsolute THEN <<".">> ELSE body
             withSep == IF body # <<>> /\ trailing THEN withDot \o <<"/">> ELSE withDot
         IN  IF isAbsolute THEN <<"/">> \o withSep ELSE withSep

pathJoin(a, b) ==
    pathNormalize(IF a = <<>> THEN b ELSE IF b = <<>> THEN a ELSE a \o <<"/">> \o b)

buildScreenshotFilepath(cfg, filename) == pathJoin(Get(cfg, "screenshotPath").v, filename)

-----------------------------------------------------------------------------
(* Configuration. *)

defaultFilenameTemplate == <<"%", "t", "i", "m", "e", "s", "t", "a", "m", "p", "%", "_", "%", "c", "a", "p", "I", "d", "%", "_", "%", "p", "a", "r", "e", "n", "t", "%", "-", "%", "t", "i", "t", "l", "e", "%">>

getOptionFilenameTemplate(cfg) ==
    IF \/ ~Truthy(Get(cfg, "reporterOptions"))
       \/ ~Truthy(Get(Get(cfg, "reporterOptions"), "errorshotReporter"))
       \/ ~Truthy(Get(Get(Get(cfg, "reporterOptions"), "errorshotReporter"), "template"))
    THEN defaultFilenameTemplate
    ELSE Get(Get(Get(cfg, "reporterOptions"), "errorshotReporter"), "template").v

screenshotPath == <<"e", "r", "r", "o", "r", "S", "h", "o", "t", "s">>

\* a wdio.conf.js with the errorshotReporter options er
ConfigWith(er) ==
    Obj([k \in {"screenshotPath", "reporterOptions"} |->
            IF k = "screenshotPath" THEN Str(screenshotPath)
            ELSE Obj([j \in {"errorshotReporter"} |-> er])])

ConfigWithTemplate(template) == ConfigWith(Obj([k \in {"template"} |-> Str(template)]))

\* no reporterOptions at all
configNoOptions == Obj([k \in {"screenshotPath"} |-> Str(screenshotPath)])
\* reporterOptions without errorshotReporter
configNoReporter ==
    Obj([k \in {"screenshotPath", "reporterOptions"} |->
            IF k = "screenshotPath" THEN Str(screenshotPath) ELSE EmptyObject])
\* errorshotReporter without template
configNoTemplate == ConfigWith(EmptyObject)
configEmptyTemplate == ConfigWithTemplate(<<>>)

\* the templates of the unit tests and of the readme
testTemplate == <<"%", "c", "a", "p", "I", "d", "%", "_", "%", "t", "i", "m", "e", "s", "t", "a", "m", "p", "%", "_", "%", "p", "a", "r", "e", "n", "t", "%", "-", "%", "t", "i", "t", "l", "e", "%">>
notExistingTemplate == <<"%", "c", "a", "p", "I", "d", "%", "_", "%", "n", "o", "t", "e", "x", "i", "s", "t", "i", "n", "g", "%", "_", "%", "p", "a", "r", "e", "n", "t", "%", "-", "%", "t", "i", "t", "l", "e", "%">>

ConfigsWithoutTemplate ==
    {configNoOptions, configNoReporter, configNoTemplate, configEmptyTemplate}

Configs == ConfigsWithoutTemplate \cup {ConfigWithTemplate(notExistingTemplate)}

-----------------------------------------------------------------------------
(* Screenshot records. *)

Required == {"filename", "time", "parent", "title"}

Screenshot(filename, time, parent, title) ==
    Obj([k \in Required |->
            CASE k = "filename" -> filename
              [] k = "time"     -> time
              [] k = "parent"   -> parent
              [] k = "title"    -> title])

\* the record without its own property key
Without(screenshot, key) ==
    Obj([k \in (DOMAIN screenshot.v) \ {key} |-> screenshot.v[k]])

date1 == DateOf(TRUE, 2018, 3, 4, 5, 6, 7, 89)
date2 == DateOf(TRUE, 1999, 12, 31, 23, 59, 59, 999)
invalidDate == DateOf(FALSE, 0, 0, 0, 0, 0, 0, 0)

\* the record of the handler's unit test
shotChrome ==
    Screenshot(Str(<<"E", "R", "R", "O", "R", "_", "c", "h", "r", "o", "m", "e", "_", "1", "2", "3", "4", "5", "_", "1", "3", "3", "7", ".", "p", "n", "g">>), date1,
               Str(<<"p", "a", "r", "e", "n", "t", " ", "t", "e", "x", "t", " ", "h", "e", "r", "e">>), Str(<<"t", "i", "t", "l", "e", " ", "t", "e", "x", "t", " ", "h", "e", "r", "e">>))
shotEmptyCapture ==
    Screenshot(Str(<<"E", "R", "R", "O", "R", "_", "_", "1", "2", "3", "4", "5", "_", "6", "7", "8", "9", "0", ".", "p", "n", "g">>), date2, Str(<<"S", "o", "m", "e", " ", " ", "S", "u", "i", "t", "e", "!">>), Str(<<>>))
shotCorrupted ==
    Obj([k \in {"filename"} |-> Str(<<"E", "R", "R", "O", "R", "_", "c", "o", "r", "r", "u", "p", "t", "e", "d", "_", "s", "c", "r", "e", "e", "n", "s", "h", "o", "t", "_", "d", "a", "t", "a", ".", "p", "n", "g">>)])

\* all four properties, each holding a value of its type
WellFormed(screenshot) ==
    /\ \A k \in Required : hasOwnProperty(screenshot, k)
    /\ Get(screenshot, "filename").t = "string"
    /\ Get(screenshot, "time").t = "date" /\ Get(screenshot, "time").v.valid
    /\ Get(screenshot, "parent").t = "string"
    /\ Get(screenshot, "title").t = "string"

WellFormedScreenshots == {shotChrome, shotEmptyCapture}

IncompleteScreenshots ==
    {Without(shotChrome, k) : k \in Required} \cup {shotCorrupted}

\* all four properties, one of them holding no usable value
UnusableScreenshots ==
    { Screenshot(Get(shotChrome, "filename"), date1, Undefined, Str(<<"t", "i", "t", "l", "e">>)),
      Screenshot(Get(shotChrome, "filename"), date1, Str(<<"p", "a", "r", "e", "n", "t">>), Null),
      Screenshot(Get(shotChrome, "filename"), invalidDate, Str(<<"p", "a", "r", "e", "n", "t">>), Str(<<"t", "i", "t", "l", "e">>)) }

Screenshots == WellFormedScreenshots \cup IncompleteScreenshots \cup UnusableScreenshots

-----------------------------------------------------------------------------
(* The reporter. *)

\* a check that forgets the last two of the four properties
screenshotHasRequiredProperties_two(screenshot) ==
    /\ hasOwnProperty(screenshot, "filename")
    /\ hasOwnProperty(screenshot, "time")

screenshotHasRequiredProperties(screenshot) ==
    /\ hasOwnProperty(screenshot, "filename")
    /\ hasOwnProperty(screenshot, "time")
    /\ hasOwnProperty(screenshot, "parent")
    /\ hasOwnProperty(screenshot, "title")

LogEntry(msg, rename) == [msg |-> msg, rename |-> rename]

\* a completion callback as the unit tests pass it
Callback == [t |-> "function", v |-> "cb"]

\* the fs.rename request renameScreenshot issues for event number event (0 for
\* a direct call), with the cb it was given and the calls made to cb so far
RenameRequest(event, filepathOld, filepathNew, cb) ==
    [event |-> event, from |-> filepathOld, to |-> filepathNew, status |-> "pending",
     err |-> Undefined, cb |-> cb, cbCalls |-> <<>>]

\* fs.rename reports success only for a file that exists
MayReport(err, request) == Truthy(err) \/ request.from \in files

\* the file system once fs.rename has called back with err
FilesAfter(err, request) ==
    IF Truthy(err) THEN files ELSE (files \ {request.from}) \cup {request.to}

\* the call cb(err); the callback of the unit tests looks whether the file
\* exists at the new path
CbCall(err, request) == [err |-> err, exists |-> request.to \in FilesAfter(err, request)]

NoCall == [fn |-> "none"]

\* the screenshots the test runner has saved before it emits their events
SavedScreenshots(cfg) ==
    {buildScreenshotFilepath(cfg, Get(screenshot, "filename").v) :
        screenshot \in WellFormedScreenshots}

Init ==
    /\ pc = "new"
    /\ config \in Configs
    /\ files = SavedScreenshots(config)
    /\ filenameTemplate = Undefined
    /\ isInitialized = FALSE
    /\ events = <<>>
    /\ renames = <<>>
    /\ log = <<>>
    /\ call = NoCall

\* new ErrorshotReporter(baseReporter, config, options)
Construct ==
    /\ pc = "new"
    /\ filenameTemplate' = Str(getOptionFilenameTemplate(config))
    /\ isInitialized' = TRUE
    /\ pc' = "constructed"
    /\ UNCHANGED <<config, events, renames, log, files, call>>

\* what the handler returns for the record
handlerResult(screenshot) ==
    IF ~screenshotHasRequiredProperties(screenshot) THEN False
    ELSE IF getPlaceholderLookupThrows(screenshot) THEN Thrown
    ELSE True

\* the number of renames that have failed so far
FailedSoFar == Cardinality({i \in DOMAIN renames : renames[i].status = "failed"})

\* a handler that gives up once a rename has failed
handleEventRunnerScreenshot_giveup(screenshot) ==
    /\ pc = "constructed"
    /\ Len(events) < MaxEvents
    /\ LET result == IF FailedSoFar > 0 THEN False ELSE handlerResult(screenshot)
           filepathOld == buildScreenshotFilepath(config, Get(screenshot, "filename").v)
           filepathNew == buildScreenshotFilepath(config,
                              getScreenshotName(filenameTemplate.v, screenshot))
       IN  /\ events' = Append(events, [screenshot |-> screenshot, result |-> result,
                                        failedBefore |-> FailedSoFar])
           /\ renames' = IF result = True
                         THEN Append(renames,
                                     RenameRequest(Len(events) + 1, filepathOld, filepathNew, Undefined))
                         ELSE renames
           /\ log' = IF result = False
                     THEN Append(log, LogEntry("Screenshot properties do not match.", 0))
                     ELSE log
    /\ UNCHANGED <<pc, config, filenameTemplate, isInitialized, files, call>>

\* a handler that renames synchronously and returns once the rename is over
handleEventRunnerScreenshot_sync(screenshot) ==
    /\ pc = "constructed"
    /\ Len(events) < MaxEvents
    /\ LET result == handlerResult(screenshot)
           filepathOld == buildScreenshotFilepath(config, Get(screenshot, "filename").v)
           filepathNew == buildScreenshotFilepath(config,
                              getScreenshotName(filenameTemplate.v, screenshot))
           request == RenameRequest(Len(events) + 1, filepathOld, filepathNew, Undefined)
           err == IF filepathOld \in files THEN Null ELSE [t |-> "error", v |-> "ENOENT"]
       IN  /\ events' = Append(events, [screenshot |-> screenshot, result |-> result,
                                        failedBefore |-> FailedSoFar])
           /\ renames' = IF result = True
                         THEN Append(renames,
                                     [request EXCEPT
                                         !.status = IF Truthy(err) THEN "failed" ELSE "renamed",
                                         !.err = err])
                         ELSE renames
           /\ files' = IF result = True THEN FilesAfter(err, request) ELSE files
           /\ log' = IF result = False
                     THEN Append(log, LogEntry("Screenshot properties do not match.", 0))
                     ELSE IF result = True /\ Truthy(err)
                     THEN log \o <<LogEntry("Failed to rename screenshot from to",
                                            Len(renames) + 1),
                                   LogEntry("err", Len(renames) + 1)>>
                     ELSE log
    /\ UNCHANGED <<pc, config, filenameTemplate, isInitialized, call>>

\* emit('runner:screenshot', screenshot): handleEventRunnerScreenshot runs to
\* its return; the rename it starts completes later, in RenameCallback
handleEventRunnerScreenshot(screenshot) ==
    /\ pc = "constructed"
    /\ Len(events) < MaxEvents
    /\ LET result == handlerResult(screenshot)
           filepathOld == buildScreenshotFilepath(config, Get(screenshot, "filename").v)
           filepathNew == buildScreenshotFilepath(config,
                              getScreenshotName(filenameTemplate.v, screenshot))
       IN  /\ events' = Append(events, [screenshot |-> screenshot, result |-> result,
                                        failedBefore |-> FailedSoFar])
           /\ renames' = IF result = True
                         THEN Append(renames,
                                     RenameRequest(Len(events) + 1, filepathOld, filepathNew, Undefined))
                         ELSE renames
           /\ log' = IF result = False
                     THEN Append(log, LogEntry("Screenshot properties do not match.", 0))
                     ELSE log
    /\ UNCHANGED <<pc, config, filenameTemplate, isInitialized, files, call>>

\* a callback that asks for the rename again when it failed
RenameCallback_retry(i, err) ==
    /\ i \in DOMAIN renames
    /\ renames[i].status = "pending"
    /\ MayReport(err, renames[i])
    /\ files' = FilesAfter(err, renames[i])
    /\ LET done == [renames EXCEPT
                       ![i].status = IF Truthy(err) THEN "failed" ELSE "renamed",
                       ![i].err = err,
                       ![i].cbCalls = IF renames[i].cb.t = "function"
                                      THEN Append(@, CbCall(err, renames[i])) ELSE @]
       IN  renames' = IF Truthy(err)
                      THEN Append(done, RenameRequest(renames[i].event, renames[i].from,
                                                      renames[i].to, renames[i].cb))
                      ELSE done
    /\ log' = IF Truthy(err)
              THEN log \o <<LogEntry("Failed to rename screenshot from to", i),
                            LogEntry("err", i)>>
              ELSE log
    /\ UNCHANGED <<pc, config, filenameTemplate, isInitialized, events, call>>

\* a callback that tells cb of failures only
RenameCallback_failuresOnly(i, err) ==
    /\ i \in DOMAIN renames
    /\ renames[i].status = "pending"
    /\ MayReport(err, renames[i])
    /\ files' = FilesAfter(err, renames[i])
    /\ renames' = [renames EXCEPT
                       ![i].status = IF Truthy(err) THEN "failed" ELSE "renamed",
                       ![i].err = err,
                       ![i].cbCalls = IF renames[i].cb.t = "function" /\ Truthy(err)
                                      THEN Append(@, CbCall(err, renames[i])) ELSE @]
    /\ log' = IF Truthy(err)
              THEN log \o <<LogEntry("Failed to rename screenshot from to", i),
                            LogEntry("err", i)>>
              ELSE log
    /\ UNCHANGED <<pc, config, filenameTemplate, isInitialized, events, call>>

\* the callback fs.rename calls when rename number i is finished, with the
\* error err of the file system (null on success); the handler passes no cb.
\* Lines 114-121: log twice when err is set, then cb(err) when cb is a function
RenameCallback(i, err) ==
    /\ i \in DOMAIN renames
    /\ renames[i].status = "pending"
    /\ MayReport(err, renames[i])
    /\ files' = FilesAfter(err, renames[i])
    /\ renames' = [renames EXCEPT
                       ![i].status = IF Truthy(err) THEN "failed" ELSE "renamed",
                       ![i].err = err,
                       ![i].cbCalls = IF renames[i].cb.t = "function"
                                      THEN Append(@, CbCall(err, renames[i])) ELSE @]
    /\ log' = IF Truthy(err)
              THEN log \o <<LogEntry("Failed to rename screenshot from to", i),
                            LogEntry("err", i)>>
              ELSE log
    /\ UNCHANGED <<pc, config, filenameTemplate, isInitialized, events, call>>

\* the errors fs.rename reports
RenameErrors == {Null, [t |-> "error", v |-> "ENOENT"]}

Next ==
    \/ Construct
    \/ \E screenshot \in Screenshots : handleEventRunnerScreenshot(screenshot)
    \/ \E i \in 1..MaxEvents, err \in RenameErrors : RenameCallback(i, err)

Spec == Init /\ [][Next]_vars

-----------------------------------------------------------------------------
(* Direct calls of the reporter's methods, as the unit tests make them. *)

\* all sequences of at most n pieces, concatenated
RECURSIVE Concats(_, _)
Concats(pieces, n) ==
    IF n = 0 THEN {<<>>}
    ELSE LET shorter == Concats(pieces, n - 1)
         IN  shorter \cup {s \o q : s \in shorter, q \in pieces}

\* the file names of the unit tests
TestFilenames ==
    { <<"E", "R", "R", "O", "R", "_", "c", "h", "r", "o", "m", "e", "_", "1", "2", "3", "4", "5", "_", "6", "7", "8", "9", "0", ".", "p", "n", "g">>, <<"E", "R", "R", "O", "R", "_", "f", "i", "r", "e", "f", "o", "x", "_", "1", "2", "3", "4", "5", "_", "6", "7", "8", "9", "0", ".", "p", "n", "g">>,
      <<"E", "R", "R", "O", "R", "_", "c", "u", "s", "t", "o", "m", "-", "b", "r", "o", "w", "s", "e", "r", "-", "n", "a", "m", "e", "_", "1", "2", "3", "4", "5", "_", "6", "7", "8", "9", "0", ".", "p", "n", "g">>, <<"E", "R", "R", "O", "R", "_", "c", "h", "r", "o", "m", "e", ".", "p", "n", "g">>,
      <<"E", "R", "R", "O", "R", "_", "f", "i", "r", "e", "f", "o", "x", ".", "p", "n", "g">>, <<"c", "u", "s", "t", "o", "m", "-", "b", "r", "o", "w", "s", "e", "r", "-", "n", "a", "m", "e", "_", "1", "2", "3", "4", "5", "_", "6", "7", "8", "9", "0", ".", "p", "n", "g">>,
      <<"E", "R", "R", "O", "R", "_", "a", "s", "d", "a", "s", ".", "p", "n", "g">>, <<"E", "R", "R", "O", "R", "_", "_", "1", "2", "3", "4", "5", "_", "6", "7", "8", "9", "0", ".", "p", "n", "g">>, <<"c", "h", "r", "o", "m", "e", "_", "1", "2", "3", "4", "5", "_", "6", "7", "8", "9", "0", ".", "p", "n", "g">>,
      <<"E", "R", "R", "O", "R", "_", "c", "h", "r", "o", "m", "e", "_", "1", "2", "3", "4", "5", "_", "1", "3", "3", "7", ".", "p", "n", "g">>, <<"E", "R", "R", "O", "R", "_", "c", "o", "r", "r", "u", "p", "t", "e", "d", "_", "s", "c", "r", "e", "e", "n", "s", "h", "o", "t", "_", "d", "a", "t", "a", ".", "p", "n", "g">> }

FilenamePieces == { <<"_">>, <<"x">>, <<"i", "e">>, <<"o", "p", "e", "r", "a">>, <<"c", "h", "r", "o", "m", "e">>, <<"E", "d", "g", "e">> }

\* single-line file names
Filenames ==
    TestFilenames \cup {prefix \o body : prefix \in {<<>>, <<"E", "R", "R", "O", "R">>},
                                         body \in Concats(FilenamePieces, MaxBodyLen)}

TemplatePieces == { <<"%">>, <<"t", "i", "t", "l", "e">>, <<"c", "a", "p", "I", "d">>, <<"x">>, <<"_">>, <<"-">> }

Templates ==
    {defaultFilenameTemplate, testTemplate, notExistingTemplate}
        \cup (Concats(TemplatePieces, MaxPieces) \ {<<>>})

\* the records of the unit tests of replaceFilenameTemplatePlaceholders
shotPlain ==
    Screenshot(Str(<<"E", "R", "R", "O", "R", "_", "c", "h", "r", "o", "m", "e", "_", "1", "2", "3", "4", "5", "_", "6", "7", "8", "9", "0", ".", "p", "n", "g">>), date1, Str(<<"p", "a", "r", "e", "n", "t">>), Str(<<"t", "i", "t", "l", "e">>))
shotText ==
    Screenshot(Str(<<"E", "R", "R", "O", "R", "_", "c", "h", "r", "o", "m", "e", "_", "1", "2", "3", "4", "5", "_", "6", "7", "8", "9", "0", ".", "p", "n", "g">>), date1,
               Str(<<"p", "a", "r", "e", "n", "t", " ", "t", "e", "x", "t", " ", "h", "e", "r", "e">>), Str(<<"t", "i", "t", "l", "e", " ", "t", "e", "x", "t", " ", "h", "e", "r", "e">>))
\* a browser name that reads like a placeholder
shotToken ==
    Screenshot(Str(<<"E", "R", "R", "O", "R", "_", "%", "t", "i", "t", "l", "e", "%", "_", "1", "_", "2", ".", "p", "n", "g">>), date2, Str(<<"P", "a", "r", "e", "n", "t">>), Str(<<"x", "_", "y">>))

TemplateScreenshots == {shotPlain, shotText, shotToken}

\* the texts of the unit tests of slugify
TestTexts == { <<"l", "o", "r", "e", "m", " ", "i", "p", "s", "u", "m">>, <<"l", "o", "r", "e", "m", " ", " ", " ", "i", "p", "s", "u", "m">>, <<"l", "O", "r", "E", "m", " ", "I", "p", "S", "u", "M">> }

TextPieces == { <<" ">>, <<"a">>, <<"B">>, <<"-">>, <<"_">>, <<"!">> }

Texts == TestTexts \cup Concats(TextPieces, MaxPieces)

\* the default delimiter and two others a caller may pass
Delimiters == { defaultDelimiter, <<"_">>, <<"+">> }

\* the file system of the unit tests of renameScreenshot
mockfs == { <<"p", "a", "t", "h", "/", "o", "l", "d", "/", "o", "l", "d", ".", "p", "n", "g">> }

\* the arguments of renameScreenshot: the file of the unit tests or one that
\* does not exist, with the callback or without
RenameArgs ==
    [filepathOld : { <<"p", "a", "t", "h", "/", "o", "l", "d", "/", "o", "l", "d", ".", "p", "n", "g">>, <<"p", "a", "t", "h", "/", "o", "l", "d", "/", "n", "o", "n", "e", ".", "p", "n", "g">> },
     filepathNew : { <<"p", "a", "t", "h", "/", "n", "e", "w", "/", "n", "e", "w", ".", "p", "n", "g">> },
     cb : {Callback, Undefined}]

PendingCall(fn, arg) == [fn |-> fn, arg |-> arg, state |-> "pending", ret |-> <<>>]

\* a constructed reporter and one method call about to be made on it
InitCalls ==
    /\ pc = "constructed"
    /\ isInitialized = TRUE
    /\ events = <<>>
    /\ renames = <<>>
    /\ log = <<>>
    /\ \/ /\ config = ConfigWithTemplate(testTemplate)
          /\ call \in {PendingCall("getBrowserFromScreenshotName", f) : f \in Filenames}
          /\ files = {}
       \/ /\ config \in {ConfigWithTemplate(template) : template \in Templates}
          /\ call \in {PendingCall("replaceFilenameTemplatePlaceholders", screenshot) :
                          screenshot \in TemplateScreenshots}
          /\ files = {}
       \/ /\ config = ConfigWithTemplate(testTemplate)
          /\ call \in {PendingCall("slugify", [text |-> Str(text), delimiter |-> d]) :
                          text \in Texts, d \in Delimiters}
          /\ files = {}
       \/ /\ config = ConfigWithTemplate(testTemplate)
          /\ call \in {PendingCall("renameScreenshot", args) : args \in RenameArgs}
          /\ files = mockfs
    /\ filenameTemplate = Str(getOptionFilenameTemplate(config))

\* reporter.getBrowserFromScreenshotName(filename)
call_getBrowserFromScreenshotName ==
    /\ call.fn = "getBrowserFromScreenshotName"
    /\ call.state = "pending"
    /\ call' = [call EXCEPT !.state = "returned",
                            !.ret = getBrowserFromScreenshotName(call.arg)]
    /\ UNCHANGED <<pc, config, filenameTemplate, isInitialized, events, renames, log, files>>

\* reporter.replaceFilenameTemplatePlaceholders(screenshot)
call_replaceFilenameTemplatePlaceholders ==
    /\ call.fn = "replaceFilenameTemplatePlaceholders"
    /\ call.state = "pending"
    /\ call' = [call EXCEPT !.state = "returned",
                            !.ret = replaceFilenameTemplatePlaceholders(
                                        filenameTemplate.v, call.arg)]
    /\ UNCHANGED <<pc, config, filenameTemplate, isInitialized, events, renames, log, files>>

\* slugify(text, delimiter)
call_slugify ==
    /\ call.fn = "slugify"
    /\ call.state = "pending"
    /\ call' = [call EXCEPT !.state = "returned",
                            !.ret = slugify(call.arg.text, call.arg.delimiter)]
    /\ UNCHANGED <<pc, config, filenameTemplate, isInitialized, events, renames, log, files>>

\* reporter.renameScreenshot(filepathOld, filepathNew, cb): hands the request
\* to fs.rename and returns; the test may make the call again
call_renameScreenshot ==
    /\ call.fn = "renameScreenshot"
    /\ Len(renames) < MaxEvents
    /\ renames' = Append(renames, RenameRequest(0, call.arg.filepathOld,
                                                call.arg.filepathNew, call.arg.cb))
    /\ call' = [call EXCEPT !.state = "returned"]
    /\ UNCHANGED <<pc, config, filenameTemplate, isInitialized, events, log, files>>

NextCalls ==
    \/ call_getBrowserFromScreenshotName
    \/ call_replaceFilenameTemplatePlaceholders
    \/ call_slugify
    \/ call_renameScreenshot
    \/ \E i \in 1..MaxEvents, err \in RenameErrors : RenameCallback(i, err)

SpecCalls == InitCalls /\ [][NextCalls]_vars

-----------------------------------------------------------------------------
(* The reporter of src/lib/wdio-errorshot-reporter.js, where it differs. *)

lib_defaultFormat == <<"%", "c", "a", "p", "I", "d", "%", "_", "%", "p", "a", "r", "e", "n", "t", "%", "-", "%", "t", "i", "t", "l", "e", "%", "_", "%", "t", "i", "m", "e", "s", "t", "a", "m", "p", "%">>

\* reading a property of undefined throws a TypeError: the guard of the source
\* only logs, and the return statement reads the template all the same
lib_getOptionFilenameTemplateThrows(cfg) ==
    \/ Get(cfg, "reporterOptions").t # "object"
    \/ Get(Get(cfg, "reporterOptions"), "errorshotReporter").t # "object"

lib_getOptionFilenameTemplate(cfg) ==
    IF ~Truthy(Get(Get(Get(cfg, "reporterOptions"), "errorshotReporter"), "template"))
    THEN lib_defaultFormat
    ELSE Get(Get(Get(cfg, "reporterOptions"), "errorshotReporter"), "template").v

\* whether the constructor's guard logs 'No template name defined in the configs.'
lib_noTemplateDefined(cfg) ==
    \/ ~Truthy(Get(cfg, "reporterOptions"))
    \/ ~Truthy(Get(Get(cfg, "reporterOptions"), "errorshotReporter"))
    \/ ~Truthy(Get(Get(Get(cfg, "reporterOptions"), "errorshotReporter"), "template"))

lib_getCapabilitiesFromScreenshotName(filename) ==
    LET parsedBrowserName == matchUnderscores(filename)
    IN  IF parsedBrowserName.t = "array" /\ Len(parsedBrowserName.v) # 0
        THEN parsedBrowserName.v[2]
        ELSE <<>>

lib_getPlaceholderLookup(screenshot) ==
    LET browserName == lib_getCapabilitiesFromScreenshotName(Get(screenshot, "filename").v)
    IN  [k \in PlaceholderKeys |->
            CASE k = k_capId       -> browserName
              [] k = k_browser     -> browserName
              [] k = k_browserName -> browserName
              [] k = k_timestamp   -> replaceColons(toJSON(Get(screenshot, "time")).v)
              [] k = k_parent      -> slugify(Get(screenshot, "parent"), defaultDelimiter)
              [] k = k_title       -> slugify(Get(screenshot, "title"), defaultDelimiter)]

lib_getScreenshotName(template, screenshot) ==
    ReplaceFrom(template, 1, lib_getPlaceholderLookup(screenshot)) \o <<".", "p", "n", "g">>

\* the handler has no return statement after the rename: it returns undefined
lib_handlerResult(screenshot) ==
    IF ~screenshotHasRequiredProperties(screenshot) THEN False
    ELSE IF getPlaceholderLookupThrows(screenshot) THEN Thrown
    ELSE Undefined

lib_Construct ==
    /\ pc = "new"
    /\ log' = IF lib_noTemplateDefined(config)
              THEN Append(log, LogEntry("No template name defined in the configs.", 0))
              ELSE log
    /\ IF lib_getOptionFilenameTemplateThrows(config)
       THEN pc' = "threw" /\ UNCHANGED filenameTemplate
       ELSE /\ pc' = "constructed"
            /\ filenameTemplate' = Str(lib_getOptionFilenameTemplate(config))
    /\ UNCHANGED <<config, isInitialized, events, renames, files, call>>

lib_handleEventRunnerScreenshot(screenshot) ==
    /\ pc = "constructed"
    /\ Len(events) < MaxEvents
    /\ LET result == lib_handlerResult(screenshot)
           filepathOld == buildScreenshotFilepath(config, Get(screenshot, "filename").v)
           filepathNew == buildScreenshotFilepath(config,
                              lib_getScreenshotName(filenameTemplate.v, screenshot))
       IN  /\ events' = Append(events, [screenshot |-> screenshot, result |-> result,
                                        failedBefore |-> FailedSoFar])
           /\ renames' = IF result = Undefined
                         THEN Append(renames,
                                     RenameRequest(Len(events) + 1, filepathOld, filepathNew, Undefined))
                         ELSE renames
           /\ log' = IF result = False
                     THEN Append(log, LogEntry(
                              "Failed to rename screenshot, falling back to default behaviour!", 0))
                     ELSE log
    /\ UNCHANGED <<pc, config, filenameTemplate, isInitialized, files, call>>

lib_RenameCallback(i, err) ==
    /\ i \in DOMAIN renames
    /\ renames[i].status = "pending"
    /\ MayReport(err, renames[i])
    /\ files' = FilesAfter(err, renames[i])
    /\ renames' = [renames EXCEPT
                       ![i].status = IF Truthy(err) THEN "failed" ELSE "renamed",
                       ![i].err = err]
    /\ log' = IF Truthy(err)
              THEN Append(log, LogEntry("Failed to rename screenshot: err", i))
              ELSE log
    /\ UNCHANGED <<pc, config, filenameTemplate, isInitialized, events, call>>

lib_Next ==
    \/ lib_Construct
    \/ \E screenshot \in Screenshots : lib_handleEventRunnerScreenshot(screenshot)
    \/ \E i \in 1..MaxEvents, err \in RenameErrors : lib_RenameCallback(i, err)

SpecLib == Init /\ [][lib_Next]_vars

\* reporter.getCapabilitiesFromScreenshotName(filename)
lib_call_getCapabilitiesFromScreenshotName ==
    /\ call.fn = "getCapabilitiesFromScreenshotName"
    /\ call.state = "pending"
    /\ call' = [call EXCEPT !.state = "returned",
                            !.ret = lib_getCapabilitiesFromScreenshotName(call.arg)]
    /\ UNCHANGED <<pc, config, filenameTemplate, isInitialized, events, renames, log, files>>

lib_InitCalls ==
    /\ pc = "constructed"
    /\ isInitialized = FALSE
    /\ events = <<>>
    /\ renames = <<>>
    /\ log = <<>>
    /\ files = {}
    /\ config = ConfigWithTemplate(testTemplate)
    /\ call \in {PendingCall("getCapabilitiesFromScreenshotName", f) : f \in Filenames}
    /\ filenameTemplate = Str(lib_getOptionFilenameTemplate(config))

SpecLibCalls == lib_InitCalls /\ [][lib_call_getCapabilitiesFromScreenshotName]_vars

-----------------------------------------------------------------------------
(* Properties of the event handler. *)

\* the record lacks one of the four required properties
Incomplete(screenshot) == \E k \in Required : ~hasOwnProperty(screenshot, k)

\* the rename requests issued for event number n
RenamesOf(n) == {i \in DOMAIN renames : renames[i].event = n}

\* C1: a record that lacks any one of filename, time, parent, title makes the
\* handler return false, and no rename request is issued for that event.
C1_IncompleteRecordRejected ==
    \A n \in DOMAIN events :
        Incomplete(events[n].screenshot)
            => events[n].result = False /\ RenamesOf(n) = {}

\* a record with exactly one property missing was rejected, and the event
\* after it got its rename
C1_Witness ==
    /\ Len(events) >= 2
    /\ Incomplete(events[1].screenshot)
    /\ Cardinality(DOMAIN events[1].screenshot.v) = 3
    /\ events[1].result = False
    /\ RenamesOf(1) = {}
    /\ RenamesOf(2) # {}

\* C2: every record with all four required properties (each holding a value
\* of its type) makes the handler return true, whether the rename it started
\* is still pending, has succeeded or has failed.
C2_CompleteRecordReturnsTrue ==
    \A n \in DOMAIN events :
        WellFormed(events[n].screenshot) => events[n].result = True

ExpectedOld(screenshot) ==
    screenshotPath \o <<"/">> \o Get(screenshot, "filename").v
ExpectedNew(screenshot) ==
    screenshotPath \o <<"/">>
        \o ReplaceFrom(filenameTemplate.v, 1, getPlaceholderLookup(screenshot)) \o <<".", "p", "n", "g">>

\* C4: a complete record handled after a rename has failed still makes the
\* handler return true and issue its own rename, with the paths the record
\* has when no rename has failed.
C4_FailedRenameDoesNotAffectLaterEvents ==
    \A n \in DOMAIN events :
        (events[n].failedBefore > 0 /\ WellFormed(events[n].screenshot))
            => /\ events[n].result = True
               /\ \E i \in RenamesOf(n) :
                      /\ renames[i].from = ExpectedOld(events[n].screenshot)
                      /\ renames[i].to = ExpectedNew(events[n].screenshot)
                      /\ \A m \in DOMAIN events :
                             events[m].screenshot = events[n].screenshot
                                 => \A j \in RenamesOf(m) :
                                        /\ renames[j].from = renames[i].from
                                        /\ renames[j].to = renames[i].to

\* the same record was handled before and after a rename failed
C4_Witness ==
    /\ Len(events) >= 2
    /\ events[1].screenshot = events[2].screenshot
    /\ WellFormed(events[2].screenshot)
    /\ events[1].failedBefore = 0
    /\ events[2].failedBefore > 0
    /\ renames[1].status = "failed"
    /\ RenamesOf(2) # {}

\* the computed name of the handler's unit-test record under the default template
expectedChromeName ==
    <<"2", "0", "1", "8", "-", "0", "3", "-", "0", "4", "T", "0", "5", "-", "0", "6", "-", "0", "7", ".", "0", "8", "9", "Z", "_", "c", "h", "r", "o", "m", "e", "_", "p", "a", "r", "e", "n", "t", "-", "t", "e", "x", "t", "-", "h", "e", "r", "e", "-", "t", "i", "t", "l", "e", "-", "t", "e", "x", "t", "-", "h", "e", "r", "e", ".", "p", "n", "g">>

\* s ends with the fixed extension
EndsWithPng(s) == Len(s) >= 4 /\ SubSeq(s, Len(s) - 3, Len(s)) = <<".", "p", "n", "g">>

\* C5: the rename of a complete record goes from the screenshot directory
\* joined with the record's file name to the screenshot directory joined with
\* the template after substitution followed by '.png'; the default template
\* and the record {ERROR_chrome_12345_1337.png, T, 'parent text here',
\* 'title text here'} give '<T-formatted>_chrome_parent-text-here-title-text-here.png'.
C5_RenamePaths ==
    \A i \in DOMAIN renames :
        LET screenshot == events[renames[i].event].screenshot
        IN  /\ renames[i].from = ExpectedOld(screenshot)
            /\ renames[i].to = ExpectedNew(screenshot)
            /\ EndsWithPng(renames[i].to)
            /\ (screenshot = shotChrome /\ filenameTemplate = Str(defaultFilenameTemplate))
                   => /\ renames[i].from = <<"e", "r", "r", "o", "r", "S", "h", "o", "t", "s", "/", "E", "R", "R", "O", "R", "_", "c", "h", "r", "o", "m", "e", "_", "1", "2", "3", "4", "5", "_", "1", "3", "3", "7", ".", "p", "n", "g">>
                      /\ renames[i].to = screenshotPath \o <<"/">> \o expectedChromeName

\* the unit-test record was handled under the default template
C5_Witness ==
    /\ filenameTemplate = Str(defaultFilenameTemplate)
    /\ \E i \in DOMAIN renames :
           /\ events[renames[i].event].screenshot = shotChrome
           /\ renames[i].to = screenshotPath \o <<"/">> \o expectedChromeName

-----------------------------------------------------------------------------
(* Properties of the configuration. *)

\* C7: a configuration without template (no reporterOptions, no
\* errorshotReporter, no template or the empty template) constructs a
\* reporter whose template is '%timestamp%_%capId%_%parent%-%title%'; a
\* configured non-empty template is the one used.
C7_TemplateDefault ==
    /\ pc # "threw"
    /\ pc = "constructed"
           => IF config \in ConfigsWithoutTemplate
              THEN filenameTemplate = Str(<<"%", "t", "i", "m", "e", "s", "t", "a", "m", "p", "%", "_", "%", "c", "a", "p", "I", "d", "%", "_", "%", "p", "a", "r", "e", "n", "t", "%", "-", "%", "t", "i", "t", "l", "e", "%">>)
              ELSE filenameTemplate = Str(notExistingTemplate)

-----------------------------------------------------------------------------
(* Properties of placeholder substitution. *)

\* the "%" of the template from position i on
Percents(template, i) == {k \in i..Len(template) : template[k] = "%"}

\* whether template[i..] and result[j..] are the same text but for tokens
\* %key% with a key of the placeholder map, each of which the result may hold
\* the value of instead
RECURSIVE Aligned(_, _, _, _, _)
Aligned(template, i, result, j, placeholders) ==
    IF Percents(template, i) = {}
    THEN SubSeq(template, i, Len(template)) = SubSeq(result, j, Len(result))
    ELSE LET p == Min(Percents(template, i))
             q == j + (p - i)
         IN  /\ q - 1 <= Len(result)
             /\ SubSeq(template, i, p - 1) = SubSeq(result, j, q - 1)
             /\ \/ /\ q <= Len(result)
                   /\ result[q] = "%"
                   /\ Aligned(template, p + 1, result, q + 1, placeholders)
                \/ \E key \in DOMAIN placeholders :
                       LET token == <<"%">> \o key \o <<"%">>
                           value == placeholders[key]
                       IN  /\ p + Len(token) - 1 <= Len(template)
                           /\ SubSeq(template, p, p + Len(token) - 1) = token
                           /\ q + Len(value) - 1 <= Len(result)
                           /\ SubSeq(result, q, q + Len(value) - 1) = value
                           /\ Aligned(template, p + Len(token), result, q + Len(value),
                                      placeholders)

ReplaceReturned ==
    call.fn = "replaceFilenameTemplatePlaceholders" /\ call.state = "returned"

\* C6: substitution changes only tokens %word% whose key is one of capId,
\* browser, browserName, timestamp, parent, title; every other character of
\* the template, a token with an unknown key and its "%" included, is in the
\* result unchanged and in the same order;
\* '%capId%_%notexisting%_%parent%-%title%' gives 'chrome_%notexisting%_parent-title'.
C6_OnlyKnownTokensChange ==
    ReplaceReturned
        => /\ DOMAIN getPlaceholderLookup(call.arg) =
                  {<<"c", "a", "p", "I", "d">>, <<"b", "r", "o", "w", "s", "e", "r">>, <<"b", "r", "o", "w", "s", "e", "r", "N", "a", "m", "e">>, <<"t", "i", "m", "e", "s", "t", "a", "m", "p">>,
                   <<"p", "a", "r", "e", "n", "t">>, <<"t", "i", "t", "l", "e">>}
           /\ Aligned(filenameTemplate.v, 1, call.ret, 1, getPlaceholderLookup(call.arg))
           /\ (filenameTemplate.v = <<"%", "c", "a", "p", "I", "d", "%", "_", "%", "n", "o", "t", "e", "x", "i", "s", "t", "i", "n", "g", "%", "_", "%", "p", "a", "r", "e", "n", "t", "%", "-", "%", "t", "i", "t", "l", "e", "%">>
               /\ call.arg = shotPlain)
                  => call.ret = <<"c", "h", "r", "o", "m", "e", "_", "%", "n", "o", "t", "e", "x", "i", "s", "t", "i", "n", "g", "%", "_", "p", "a", "r", "e", "n", "t", "-", "t", "i", "t", "l", "e">>

\* the template of the unit test, with its unknown token, was substituted
C6_Witness ==
    /\ ReplaceReturned
    /\ filenameTemplate.v = notExistingTemplate
    /\ call.arg = shotPlain
    /\ call.ret = <<"c", "h", "r", "o", "m", "e", "_", "%", "n", "o", "t", "e", "x", "i", "s", "t", "i", "n", "g", "%", "_", "p", "a", "r", "e", "n", "t", "-", "t", "i", "t", "l", "e">>

-----------------------------------------------------------------------------
(* Properties of browser inference. *)

\* browser inference, under either of its two names, has returned
BrowserReturned ==
    /\ call.fn \in {"getBrowserFromScreenshotName", "getCapabilitiesFromScreenshotName"}
    /\ call.state = "returned"

Underscores(filename) == {i \in DOMAIN filename : filename[i] = "_"}

\* the text between the first and the second underscore of a file name that
\* has two
HasCapture(filename) == Cardinality(Underscores(filename)) >= 2
Capture(filename) ==
    LET first == Min(Underscores(filename))
        second == Min(Underscores(filename) \ {first})
    IN  SubSeq(filename, first + 1, second - 1)

\* the capture of an ERROR-prefixed file name decides the result
CaptureDecides(filename) ==
    /\ startsWith(filename, <<"E", "R", "R", "O", "R">>)
    /\ HasCapture(filename)
    /\ Capture(filename) # <<>>

\* the entries of the known-browser list that are substrings of the file name
KnownIn(filename) == {n \in DOMAIN browsers : includes(filename, browsers[n])}

\* C8: a file name that starts with 'ERROR' and has a non-empty text between
\* its first and second underscore gives exactly that text, whether or not
\* the text or the name holds a known browser.
C8_CaptureReturned ==
    /\ (BrowserReturned /\ CaptureDecides(call.arg)) => call.ret = Capture(call.arg)
    /\ (BrowserReturned /\ call.arg = <<"E", "R", "R", "O", "R", "_", "c", "h", "r", "o", "m", "e", "_", "1", "2", "3", "4", "5", "_", "6", "7", "8", "9", "0", ".", "p", "n", "g">>)
           => call.ret = <<"c", "h", "r", "o", "m", "e">>
    /\ (BrowserReturned /\ call.arg = <<"E", "R", "R", "O", "R", "_", "c", "u", "s", "t", "o", "m", "-", "b", "r", "o", "w", "s", "e", "r", "-", "n", "a", "m", "e", "_", "1", "2", "3", "4", "5", "_", "6", "7", "8", "9", "0", ".", "p", "n", "g">>)
           => call.ret = <<"c", "u", "s", "t", "o", "m", "-", "b", "r", "o", "w", "s", "e", "r", "-", "n", "a", "m", "e">>

\* a capture that is no known browser was returned for a name that holds one
C8_Witness ==
    /\ BrowserReturned
    /\ call.arg = <<"E", "R", "R", "O", "R", "_", "x", "_", "c", "h", "r", "o", "m", "e">>
    /\ call.ret = <<"x">>

\* C9: without a non-empty capture, or without the 'ERROR' prefix, the result
\* is the last entry of (chrome, firefox, ie, edge, opera) that is a substring
\* of the file name, wherever it stands in the name.
C9_LastKnownBrowserWins ==
    /\ (BrowserReturned /\ ~CaptureDecides(call.arg) /\ KnownIn(call.arg) # {})
           => call.ret = browsers[Max(KnownIn(call.arg))]
    /\ (BrowserReturned /\ call.arg = <<"E", "R", "R", "O", "R", "_", "f", "i", "r", "e", "f", "o", "x", ".", "p", "n", "g">>) => call.ret = <<"f", "i", "r", "e", "f", "o", "x">>
    /\ (BrowserReturned /\ call.arg = <<"c", "h", "r", "o", "m", "e", "_", "1", "2", "3", "4", "5", "_", "6", "7", "8", "9", "0", ".", "p", "n", "g">>) => call.ret = <<"c", "h", "r", "o", "m", "e">>

\* a name that holds opera before chrome, and chrome inside a word, gave opera
C9_Witness ==
    /\ BrowserReturned
    /\ call.arg = <<"o", "p", "e", "r", "a", "x", "c", "h", "r", "o", "m", "e">>
    /\ call.ret = <<"o", "p", "e", "r", "a">>

\* C10: the result is never the empty string; when neither the capture nor the
\* list gives a candidate it is 'unknown_browser'.
C10_NeverEmpty ==
    BrowserReturned
        => /\ call.ret # <<>>
           /\ (~CaptureDecides(call.arg) /\ KnownIn(call.arg) = {})
                  => call.ret = <<"u", "n", "k", "n", "o", "w", "n", "_", "b", "r", "o", "w", "s", "e", "r">>
           /\ call.arg \in {<<"E", "R", "R", "O", "R", "_", "_", "1", "2", "3", "4", "5", "_", "6", "7", "8", "9", "0", ".", "p", "n", "g">>, <<"E", "R", "R", "O", "R", "_", "a", "s", "d", "a", "s", ".", "p", "n", "g">>,
                            <<"c", "u", "s", "t", "o", "m", "-", "b", "r", "o", "w", "s", "e", "r", "-", "n", "a", "m", "e", "_", "1", "2", "3", "4", "5", "_", "6", "7", "8", "9", "0", ".", "p", "n", "g">>}
                  => call.ret = <<"u", "n", "k", "n", "o", "w", "n", "_", "b", "r", "o", "w", "s", "e", "r">>

\* C11: for every file name, the value browser inference returns is the
\* sentinel 'unknown_browser' or is written entirely in lowercase
C11_LowercaseOrSentinel ==
    BrowserReturned =>
        \/ call.ret = unknownBrowser
        \/ call.ret = toLowerCase(call.ret)

SlugifyReturned == call.fn = "slugify" /\ call.state = "returned"

LowercaseWordChar == WordChar \ Range(upperSeq)

\* C12: for every string s and delimiter d, slugify(s, d) holds only lowercase
\* word characters and d, neither begins nor ends with d and has no two d in a
\* row; the three texts of the unit tests give 'lorem-ipsum', and a text
\* without word characters gives the empty string
C12_SlugifyShape ==
    SlugifyReturned =>
        LET s == call.arg.text.v
            d == call.arg.delimiter
            r == call.ret
        IN  /\ \A i \in DOMAIN r : r[i] \in LowercaseWordChar \/ <<r[i]>> = d
            /\ ~startsWith(r, d)
            /\ r = <<>> \/ <<r[Len(r)]>> # d
            /\ ~includes(r, d \o d)
            /\ (s \in TestTexts /\ d = defaultDelimiter) => r = <<"l", "o", "r", "e", "m", "-", "i", "p", "s", "u", "m">>
            /\ (\A i \in DOMAIN s : s[i] \notin WordChar) => r = <<>>

\* C13: the handler raises no exception for any record: a record that is
\* unusable (a required property missing, or present without a usable value)
\* ends in the return value false and no rename
C13_HandlerNeverThrows ==
    \A n \in DOMAIN events :
        /\ events[n].result # Thrown
        /\ ~WellFormed(events[n].screenshot) =>
               /\ events[n].result = False
               /\ RenamesOf(n) = {}

\* the calls made to the log collaborator about rename number i
LoggedFor(i) == {k \in DOMAIN log : log[k].rename = i}

\* C14: a renameScreenshot called with a completion callback calls it exactly
\* once, after the rename has finished: with the error of the file system
\* when the rename failed, with null when it succeeded, the file then being
\* at the new path; the log collaborator is called in the failure case only
C14_CallbackOnceWithOutcome ==
    \A i \in DOMAIN renames :
        LET r == renames[i]
        IN  /\ r.cb = Callback =>
                /\ r.status = "pending" => r.cbCalls = <<>>
                /\ r.status # "pending" => Len(r.cbCalls) = 1
                /\ r.status = "failed" =>
                       r.cbCalls[1].err = r.err /\ r.err \in RenameErrors \ {Null}
                /\ r.status = "renamed" =>
                       r.cbCalls[1].err = Null /\ r.cbCalls[1].exists
            /\ LoggedFor(i) # {} <=> r.status = "failed"

\* two calls with a callback are finished, the first renamed the file and the
\* second failed
C14_Witness ==
    /\ call.fn = "renameScreenshot"
    /\ Len(renames) = 2
    /\ renames[1].cb = Callback /\ renames[1].status = "renamed"
    /\ renames[1].cbCalls = <<[err |-> Null, exists |-> TRUE]>>
    /\ renames[2].cb = Callback /\ renames[2].status = "failed"
    /\ Len(renames[2].cbCalls) = 1
    /\ LoggedFor(1) = {} /\ LoggedFor(2) # {}

\* the renames that are over: fs.rename has called back
Completed(rs) == {i \in DOMAIN rs : rs[i].status # "pending"}

\* C15: the rename is fire-and-forget: when the handler returns for a valid
\* record its rename is not over yet and nothing about it is logged, the
\* completion comes in a later step, and no completion changes what the
\* handler returned
C15_HandlerDoesNotWait ==
    [][ /\ Len(events') > Len(events) =>
              LET n == Len(events')
                  started == {i \in DOMAIN renames' : renames'[i].event = n}
              IN  /\ Completed(renames') = Completed(renames)
                  /\ log' \in {log, Append(log, LogEntry("Screenshot properties do not match.", 0))}
                  /\ WellFormed(events'[n].screenshot) =>
                         /\ events'[n].result = True
                         /\ Cardinality(started) = 1
                         /\ \A i \in started : renames'[i].status = "pending"
        /\ Completed(renames') # Completed(renames) => events' = events
        /\ \A n \in DOMAIN events : n \in DOMAIN events' /\ events'[n] = events[n]
      ]_vars

\* the handler has returned true for a second record while the rename of the
\* first is still not over
C15_Witness ==
    /\ Len(events) = 2
    /\ events[1].result = True /\ events[2].result = True
    /\ \A i \in RenamesOf(1) : renames[i].status = "pending"
    /\ RenamesOf(1) # {} /\ RenamesOf(2) # {}

\* the positions of the template where the token %capId% stands with no "%"
\* before it
FirstCapId(template) ==
    {p \in DOMAIN template :
        /\ p + 6 <= Len(template)
        /\ SubSeq(template, p, p + 6) = <<"%", "c", "a", "p", "I", "d", "%">>
        /\ Percents(SubSeq(template, 1, p - 1), 1) = {}}

\* C16: substitution is one pass from left to right over the template: a
\* value it inserts is not scanned for placeholders; the browser name
\* '%title%' of the file name 'ERROR_%title%_1_2.png' stands in the result as
\* it is, where the template has %capId%
C16_SinglePass ==
    (ReplaceReturned /\ getPlaceholderLookup(call.arg)[k_capId] = <<"%", "t", "i", "t", "l", "e", "%">>)
        => LET template == filenameTemplate.v
           IN  /\ \A p \in FirstCapId(template) :
                      LET pre  == SubSeq(template, 1, p - 1)
                          post == SubSeq(template, p + 7, Len(template))
                      IN  /\ startsWith(call.ret, pre \o <<"%", "t", "i", "t", "l", "e", "%">>)
                          /\ Percents(post, 1) = {} =>
                                 call.ret = pre \o <<"%", "t", "i", "t", "l", "e", "%">> \o post
               /\ template = defaultFilenameTemplate =>
                      call.ret = <<"1", "9", "9", "9", "-", "1", "2", "-", "3", "1", "T", "2", "3", "-", "5", "9", "-", "5", "9", ".", "9", "9", "9", "Z", "_", "%", "t", "i", "t", "l", "e", "%", "_", "p", "a", "r", "e", "n", "t", "-", "x", "_", "y">>

\* the default template was substituted for the record whose file name is
\* 'ERROR_%title%_1_2.png'
C16_Witness ==
    /\ ReplaceReturned
    /\ Get(call.arg, "filename").v = <<"E", "R", "R", "O", "R", "_", "%", "t", "i", "t", "l", "e", "%", "_", "1", "_", "2", ".", "p", "n", "g">>
    /\ getBrowserFromScreenshotName(Get(call.arg, "filename").v) = <<"%", "t", "i", "t", "l", "e", "%">>
    /\ filenameTemplate.v = defaultFilenameTemplate
    /\ call.ret = <<"1", "9", "9", "9", "-", "1", "2", "-", "3", "1", "T", "2", "3", "-", "5", "9", "-", "5", "9", ".", "9", "9", "9", "Z", "_", "%", "t", "i", "t", "l", "e", "%", "_", "p", "a", "r", "e", "n", "t", "-", "x", "_", "y">>

====
